---- MODULE Spec2Model ----
(***************************************************************************)
(* Model of the remote action-cache CommandRunner of                       *)
(* src/rust/engine/process_execution/src/remote_cache.rs: one Run of the   *)
(* runner (speculation between the cache read and the downstream runner),  *)
(* the detached write-back task it may spawn, and log_cache_error.         *)
(***************************************************************************)
EXTENDS Integers, Sequences, FiniteSets, Bags, TLC

(***************************************************************************)
(* Bounds of the model.                                                    *)
(***************************************************************************)
\* largest remote_cache_speculation_delay of a request, in clock ticks
MaxDelay == 2
\* largest latency of the cache read and of the downstream runner, in ticks
MaxLat == 2
\* number of log_cache_error calls explored by SpecLog
MaxCalls == 8
\* the number of Runs of one runner, one after the other
MaxRuns == 2
\* the number of output files, and of output directories, a command declares
MaxOutputs == 2


(***************************************************************************)
(* Option / Result values.                                                 *)
(***************************************************************************)
None == [tag |-> "None"]
Some(v) == [tag |-> "Some", some |-> v]
Ok(v) == [tag |-> "Ok", ok |-> v]
Err(e) == [tag |-> "Err", err |-> e]
IsOk(r) == r.tag = "Ok"
IsErr(r) == r.tag = "Err"
IsSome(o) == o.tag = "Some"

(***************************************************************************)
(* Enumerations of the source.                                             *)
(***************************************************************************)
RemoteCacheWarningsBehavior == {"Ignore", "FirstOnly", "Backoff"}
CacheContentBehavior == {"Defer", "Fetch", "Validate"}
ProcessCacheScope == {"Always", "Successful", "Never"}
CacheErrorType == {"ReadError", "WriteError"}
Metric ==
  {"RemoteCacheRequests", "RemoteCacheRequestsCached", "RemoteCacheRequestsUncached",
   "RemoteCacheReadErrors", "RemoteCacheSpeculationRemoteCompletedFirst",
   "RemoteCacheSpeculationLocalCompletedFirst", "RemoteCacheWriteAttempts",
   "RemoteCacheWriteSuccesses", "RemoteCacheWriteErrors"}

(***************************************************************************)
(* Digests.  A digest is content-addressed: a blob digest is identified by *)
(* a number, the digest of a Tree proto by the entries the Tree contains.  *)
(***************************************************************************)
Blob(n) == [kind |-> "blob", id |-> n, of |-> {}]
NoDigest == [kind |-> "none", id |-> 0, of |-> {}]
ActionDigest(fp) == [kind |-> "action", id |-> fp, of |-> {}]
CommandDigest(fp) == [kind |-> "command", id |-> fp, of |-> {}]
StdoutDigest == [kind |-> "stdout", id |-> 0, of |-> {}]
StderrDigest == [kind |-> "stderr", id |-> 0, of |-> {}]

(***************************************************************************)
(* DigestTrie: a set of entries, each at a path (a sequence of names).     *)
(***************************************************************************)
File(p, n, x) == [path |-> p, kind |-> "File", digest |-> Blob(n), exec |-> x]
Symlink(p) == [path |-> p, kind |-> "Symlink", digest |-> NoDigest, exec |-> FALSE]
Directory(p) == [path |-> p, kind |-> "Directory", digest |-> NoDigest, exec |-> FALSE]

IsPrefix(p, q) == Len(p) <= Len(q) /\ SubSeq(q, 1, Len(p)) = p
IsStrictPrefix(p, q) == Len(p) < Len(q) /\ SubSeq(q, 1, Len(p)) = p

\* DigestTrie::entry: the entry at a path, if there is one
Entry(root_trie, path) ==
  IF \E e \in root_trie : e.path = path
    THEN Some(CHOOSE e \in root_trie : e.path = path)
    ELSE None

\* Directory::tree followed by walk: the entries below a directory, with
\* their paths made relative to it
SubTrie(root_trie, path) ==
  { [e EXCEPT !.path = SubSeq(e.path, Len(path) + 1, Len(e.path))] :
      e \in {f \in root_trie : IsStrictPrefix(path, f.path)} }

\* the digest of the Tree proto stored by store_proto_locally
TreeDigest(sub_trie) == [kind |-> "tree", id |-> 0, of |-> sub_trie]

(***************************************************************************)
(* Result -> manifest construction.                                        *)
(***************************************************************************)
ErrDirSymlink == "Declared output directory path contained a symlink instead."
ErrDirFile == "Declared output directory path contained a file instead."
ErrFileSymlink == "Declared output file path contained a symlink instead."
ErrFileDirectory == "Declared output file path contained a directory instead."
ErrLoadTrie == "Could not load the output digest trie"
ErrStoreProto == "Could not store the Tree proto locally"

\* a make_tree_for_output_directory whose walk stays at the top of the
\* directory
make_tree_for_output_directory_shallow(root_trie, directory_path) ==
  LET e == Entry(root_trie, directory_path) IN
  IF e = None THEN Ok(None)
  ELSE IF e.some.kind = "Directory" THEN
    LET sub_trie == SubTrie(root_trie, directory_path) IN
    Ok(Some([tree |-> sub_trie,
             file_digests |->
               {f.digest : f \in {g \in sub_trie : g.kind = "File" /\ Len(g.path) = 1}}]))
  ELSE IF e.some.kind = "Symlink" THEN Err(ErrDirSymlink)
  ELSE Err(ErrDirFile)

\* Ok(None) for an absent path, Ok(Some(tree, file digests)) for a directory,
\* Err for a symlink or a file at the declared path
make_tree_for_output_directory(root_trie, directory_path) ==
  LET e == Entry(root_trie, directory_path) IN
  IF e = None THEN Ok(None)
  ELSE IF e.some.kind = "Directory" THEN
    LET sub_trie == SubTrie(root_trie, directory_path) IN
    Ok(Some([tree |-> sub_trie,
             file_digests |-> {f.digest : f \in {g \in sub_trie : g.kind = "File"}}]))
  ELSE IF e.some.kind = "Symlink" THEN Err(ErrDirSymlink)
  ELSE Err(ErrDirFile)

\* an extract_output_file that skips a symlink like an absent path
extract_output_file_skipping_symlinks(root_trie, file_path) ==
  LET e == Entry(root_trie, file_path) IN
  IF e = None \/ e.some.kind = "Symlink" THEN Ok(None)
  ELSE IF e.some.kind = "File" THEN
    Ok(Some([path |-> file_path, digest |-> e.some.digest,
             is_executable |-> e.some.exec]))
  ELSE Err(ErrFileDirectory)

\* Ok(None) for an absent path, Ok(Some(OutputFile)) for a file, Err for a
\* symlink or a directory at the declared path
extract_output_file(root_trie, file_path) ==
  LET e == Entry(root_trie, file_path) IN
  IF e = None THEN Ok(None)
  ELSE IF e.some.kind = "File" THEN
    Ok(Some([path |-> file_path, digest |-> e.some.digest,
             is_executable |-> e.some.exec]))
  ELSE IF e.some.kind = "Symlink" THEN Err(ErrFileSymlink)
  ELSE Err(ErrFileDirectory)

\* the loop over command.output_directories, from index i, with the
\* accumulated [action_result, digests]; an Err ends the loop
RECURSIVE OutputDirectoriesLoop(_, _, _, _, _)
OutputDirectoriesLoop(dirs, i, output_trie, store_ok, acc) ==
  IF i > Len(dirs) THEN Ok(acc)
  ELSE
    LET r == make_tree_for_output_directory(output_trie, dirs[i]) IN
    IF IsErr(r) THEN r
    ELSE IF r.ok = None THEN OutputDirectoriesLoop(dirs, i + 1, output_trie, store_ok, acc)
    ELSE IF ~store_ok THEN Err(ErrStoreProto)
    ELSE
      LET tree_digest == TreeDigest(r.ok.some.tree) IN
      OutputDirectoriesLoop(dirs, i + 1, output_trie, store_ok,
        [action_result |->
           [acc.action_result EXCEPT !.output_directories =
              Append(@, [path |-> dirs[i], tree_digest |-> tree_digest])],
         digests |-> acc.digests \cup {tree_digest} \cup r.ok.some.file_digests])

\* a loop over command.output_files that lists the files last to first
RECURSIVE OutputFilesLoopPrepending(_, _, _, _)
OutputFilesLoopPrepending(files, i, output_trie, acc) ==
  IF i > Len(files) THEN Ok(acc)
  ELSE
    LET r == extract_output_file(output_trie, files[i]) IN
    IF IsErr(r) THEN r
    ELSE IF r.ok = None THEN OutputFilesLoopPrepending(files, i + 1, output_trie, acc)
    ELSE
      OutputFilesLoopPrepending(files, i + 1, output_trie,
        [action_result |->
           [acc.action_result EXCEPT !.output_files = <<r.ok.some>> \o @],
         digests |-> acc.digests \cup {r.ok.some.digest}])

\* the loop over command.output_files
RECURSIVE OutputFilesLoop(_, _, _, _)
OutputFilesLoop(files, i, output_trie, acc) ==
  IF i > Len(files) THEN Ok(acc)
  ELSE
    LET r == extract_output_file(output_trie, files[i]) IN
    IF IsErr(r) THEN r
    ELSE IF r.ok = None THEN OutputFilesLoop(files, i + 1, output_trie, acc)
    ELSE
      OutputFilesLoop(files, i + 1, output_trie,
        [action_result |->
           [acc.action_result EXCEPT !.output_files = Append(@, r.ok.some)],
         digests |-> acc.digests \cup {r.ok.some.digest}])

\* Ok([action_result, digests]) or Err; load_ok and store_ok are the outcomes
\* of Store::load_digest_trie and of store_proto_locally
make_action_result(command, result, load_ok, store_ok) ==
  IF ~load_ok THEN Err(ErrLoadTrie)
  ELSE
    LET output_trie == result.output_directory
        seed == [action_result |->
                   [exit_code |-> result.exit_code,
                    stdout_digest |-> result.stdout_digest,
                    stderr_digest |-> result.stderr_digest,
                    output_directories |-> <<>>,
                    output_files |-> <<>>],
                 digests |-> {result.stdout_digest, result.stderr_digest}]
        d == OutputDirectoriesLoop(command.output_directories, 1, output_trie,
                                   store_ok, seed)
    IN IF IsErr(d) THEN d
       ELSE OutputFilesLoop(command.output_files, 1, output_trie, d.ok)

(***************************************************************************)
(* Adaptive error logging.                                                 *)
(***************************************************************************)
\* usize::is_power_of_two
IsPowerOfTwo(n) == n > 0 /\ \E k \in 0..n : 2^k = n

\* the block holding the mutex: the entry of err is created at 0 when it is
\* missing (a count of 0 stands for no entry) and incremented
CountError(errors_counter, err) ==
  [errors_counter EXCEPT ![err] = @ + 1]

\* a Backoff that warns on every even occurrence
LogAtWarnOnEven(behavior, err_count) ==
  CASE behavior = "Ignore" -> FALSE
    [] behavior = "FirstOnly" -> err_count = 1
    [] behavior = "Backoff" -> err_count = 1 \/ err_count % 2 = 0

\* whether the occurrence err_count is logged at Warn
LogAtWarn(behavior, err_count) ==
  CASE behavior = "Ignore" -> FALSE
    [] behavior = "FirstOnly" -> err_count = 1
    [] behavior = "Backoff" -> IsPowerOfTwo(err_count)

\* the record of one log line
LogLine(behavior, err_type, err, err_count) ==
  [level |-> IF LogAtWarn(behavior, err_count) THEN "Warn" ELSE "Debug",
   direction |-> IF err_type = "ReadError" THEN "read from" ELSE "write to",
   occurrences |-> err_count,
   err |-> err]

(***************************************************************************)
(* Inputs of the model.                                                    *)
(***************************************************************************)
Out == <<"out">>
Dir == <<"dir">>
TrieOk ==
  {File(Out, 1, FALSE), Directory(Dir), File(<<"dir", "f">>, 2, TRUE),
   Symlink(<<"dir", "l">>)}
TrieEmpty == {}
TrieSymlinkAtFile == {Symlink(Out)}
TrieDirectoryAtFile == {Directory(Out), File(<<"out", "f">>, 1, FALSE)}
TrieSymlinkAtDirectory == {Symlink(Dir), File(Out, 1, FALSE)}
TrieFileAtDirectory == {File(Dir, 2, FALSE)}
Tries ==
  {TrieOk, TrieEmpty, TrieSymlinkAtFile, TrieDirectoryAtFile,
   TrieSymlinkAtDirectory, TrieFileAtDirectory}

\* the REAPI Command of a request: its declared outputs
Commands == {[output_files |-> <<Out>>, output_directories |-> <<Dir>>]}

ExitCodes == {0, 3}

\* FallibleProcessResultWithPlatform
ProcessResult(exit_code, trie, source) ==
  [exit_code |-> exit_code, stdout_digest |-> StdoutDigest,
   stderr_digest |-> StderrDigest, output_directory |-> trie, source |-> source]

ErrInner == "the downstream runner failed"
ErrMakeExecuteRequest == "make_execute_request failed"
ErrStoreLocally == "ensure_action_stored_locally failed"

\* what the downstream runner may return
InnerOutcomes ==
  {Ok(ProcessResult(0, t, "RanLocally")) : t \in Tries}
    \cup {Ok(ProcessResult(c, TrieOk, "RanLocally")) : c \in ExitCodes}
    \cup {Err(ErrInner)}

\* the action fingerprints of the requests
Fingerprints == {1}

\* what the Action Cache may hold for an action digest before the Run
StoredActionResult(c) ==
  make_action_result([output_files |-> <<Out>>, output_directories |-> <<Dir>>],
                     ProcessResult(c, TrieOk, "RanLocally"), TRUE, TRUE).ok.action_result
Preloaded == {None} \cup {Some(StoredActionResult(c)) : c \in ExitCodes}

Requests ==
  [cache_scope : ProcessCacheScope,
   remote_cache_speculation_delay : 0..MaxDelay,
   command : Commands,
   fingerprint : Fingerprints]

ErrGetActionResult == "Unavailable: GetActionResult failed"
ErrOutputRoots == "Unavailable: Output roots could not be loaded"
ErrOutputContent == "Unavailable: Output content could not be validated"
ErrEnsureActionUploaded == "ensure_action_uploaded failed"
ErrEnsureRemote == "ensure_remote_has_recursive failed"
ErrUpdateActionResult == "Unavailable: UpdateActionResult failed"

\* the commands and output tries make_action_result is applied to: every
\* list of up to MaxOutputs declared files and of up to MaxOutputs declared
\* directories over two paths each, and every trie that has at each of the
\* four paths nothing or one of the entries below.  Two files share the
\* digest 1, and dir2 may hold the same Tree as dir
Out2 == <<"out2">>
Dir2 == <<"dir2">>
SeqsUpTo(S, n) == UNION {[1..k -> S] : k \in 0..n}
ManifestCommands ==
  [output_files : SeqsUpTo({Out, Out2}, MaxOutputs),
   output_directories : SeqsUpTo({Dir, Dir2}, MaxOutputs)]
AtOut == {{}, {File(Out, 1, FALSE)}, {Symlink(Out)}, {Directory(Out)}}
AtOut2 == {{}, {File(Out2, 1, TRUE)}, {File(Out2, 3, FALSE)}}
AtDir ==
  {{},
   {Directory(Dir), File(<<"dir", "f">>, 2, TRUE), Symlink(<<"dir", "l">>),
    Directory(<<"dir", "sub">>), File(<<"dir", "sub", "g">>, 4, FALSE)},
   {Directory(Dir), File(<<"dir", "f">>, 2, TRUE)},
   {Symlink(Dir)},
   {File(Dir, 2, FALSE)}}
AtDir2 == {{}, {Directory(Dir2)}, {Directory(Dir2), File(<<"dir2", "f">>, 2, TRUE)}}
ManifestTries ==
  {a \cup b \cup c \cup d : a \in AtOut, b \in AtOut2, c \in AtDir, d \in AtDir2}
ManifestRequests ==
  [cache_scope : {"Always"},
   remote_cache_speculation_delay : {0},
   command : ManifestCommands,
   fingerprint : Fingerprints]
ManifestOutcomes == {Ok(ProcessResult(3, t, "RanLocally")) : t \in ManifestTries}

\* the error texts log_cache_error may be called with
ErrTexts ==
  {ErrGetActionResult, ErrOutputRoots, ErrOutputContent, ErrEnsureActionUploaded,
   ErrEnsureRemote, ErrUpdateActionResult, ErrDirSymlink, ErrDirFile, ErrFileSymlink,
   ErrFileDirectory, ErrLoadTrie, ErrStoreProto}

\* the threads that call log_cache_error concurrently, and the texts they use
LogThreads == {"t1", "t2"}
LogTexts == {ErrGetActionResult, ErrUpdateActionResult}

(***************************************************************************)
(* The cache read.                                                         *)
(***************************************************************************)
\* the output trie a cached ActionResult describes
TrieOfActionResult(action_result) ==
  {[path |-> action_result.output_files[i].path, kind |-> "File",
    digest |-> action_result.output_files[i].digest,
    exec |-> action_result.output_files[i].is_executable] :
      i \in 1..Len(action_result.output_files)}
  \cup UNION {
      {Directory(action_result.output_directories[i].path)} \cup
      {[e EXCEPT !.path = action_result.output_directories[i].path \o e.path] :
         e \in action_result.output_directories[i].tree_digest.of} :
      i \in 1..Len(action_result.output_directories)}

\* populate_fallible_execution_result: the cached ActionResult as a process
\* result of source HitRemotely; roots_ok is whether its output roots load
populate_fallible_execution_result(action_result, roots_ok) ==
  IF roots_ok
    THEN Ok(ProcessResult(action_result.exit_code, TrieOfActionResult(action_result),
                          "HitRemotely"))
    ELSE Err(ErrOutputRoots)

\* check_cache_content: Defer trusts the server; Fetch and Validate find the
\* result invalid when a referenced blob is missing, and may fail themselves
check_cache_content(behavior, blobs_present, store_ok) ==
  IF behavior = "Defer" THEN Ok(TRUE)
  ELSE IF ~store_ok THEN Err(ErrOutputContent)
  ELSE Ok(blobs_present)

\* a lookup that reports invalid content as a failure of the validation
LookupResponseInvalidIsError(rpc, behavior, roots_ok, blobs_present, store_ok) ==
  IF IsErr(rpc) THEN rpc
  ELSE
    LET response == populate_fallible_execution_result(rpc.ok, roots_ok) IN
    IF IsErr(response) THEN Err([code |-> "Unavailable", text |-> response.err])
    ELSE
      LET cache_content_valid == check_cache_content(behavior, blobs_present, store_ok) IN
      IF IsErr(cache_content_valid) \/ ~cache_content_valid.ok
        THEN Err([code |-> "Unavailable", text |-> ErrOutputContent])
      ELSE response

\* the status of the GetActionResult call chained with and_then: rpc is
\* Ok(ActionResult) or Err(code, text)
LookupResponse(rpc, behavior, roots_ok, blobs_present, store_ok) ==
  IF IsErr(rpc) THEN rpc
  ELSE
    LET response == populate_fallible_execution_result(rpc.ok, roots_ok) IN
    IF IsErr(response) THEN Err([code |-> "Unavailable", text |-> response.err])
    ELSE
      LET cache_content_valid == check_cache_content(behavior, blobs_present, store_ok) IN
      IF IsErr(cache_content_valid)
        THEN Err([code |-> "Unavailable", text |-> cache_content_valid.err])
      ELSE IF cache_content_valid.ok THEN response
      ELSE Err([code |-> "NotFound", text |-> ""])

\* a check_action_cache that counts a failed lookup as an uncached one
check_action_cache_errors_as_uncached(rpc, behavior, roots_ok, blobs_present, store_ok) ==
  LET response == LookupResponse(rpc, behavior, roots_ok, blobs_present, store_ok) IN
  IF IsOk(response)
    THEN [returns |-> Ok(Some(response.ok)), counter |-> "RemoteCacheRequestsCached"]
  ELSE IF response.err.code = "NotFound"
    THEN [returns |-> Ok(None), counter |-> "RemoteCacheRequestsUncached"]
  ELSE [returns |-> Err(response.err.text), counter |-> "RemoteCacheRequestsUncached"]

\* check_action_cache after RemoteCacheRequests was incremented: what it
\* returns and the counter it increments
check_action_cache(rpc, behavior, roots_ok, blobs_present, store_ok) ==
  LET response == LookupResponse(rpc, behavior, roots_ok, blobs_present, store_ok) IN
  IF IsOk(response)
    THEN [returns |-> Ok(Some(response.ok)), counter |-> "RemoteCacheRequestsCached"]
  ELSE IF response.err.code = "NotFound"
    THEN [returns |-> Ok(None), counter |-> "RemoteCacheRequestsUncached"]
  ELSE [returns |-> Err(response.err.text), counter |-> "RemoteCacheReadErrors"]

\* a cache_read_future that drops read errors without logging them
cache_read_future_silent(response, failures_cached) ==
  IF IsOk(response) THEN
    IF IsSome(response.ok) /\ (response.ok.some.exit_code = 0 \/ failures_cached)
      THEN [yields |-> response.ok, logs |-> None]
      ELSE [yields |-> None, logs |-> None]
  ELSE [yields |-> None, logs |-> None]

\* a cache_read_future that accepts every fetched result
cache_read_future_any_exit_code(response, failures_cached) ==
  IF IsOk(response) THEN [yields |-> response.ok, logs |-> None]
  ELSE [yields |-> None, logs |-> Some(response.err)]

\* the body of cache_read_future after check_action_cache returned: the
\* Option the future yields and the read error it logs, if any
cache_read_future_output(response, failures_cached) ==
  IF IsOk(response) THEN
    IF IsSome(response.ok) /\ (response.ok.some.exit_code = 0 \/ failures_cached)
      THEN [yields |-> response.ok, logs |-> None]
      ELSE [yields |-> None, logs |-> None]
  ELSE [yields |-> None, logs |-> Some(response.err)]

(***************************************************************************)
(* Run: the conditions of its branches.                                    *)
(***************************************************************************)
\* a runner that caches no failure
failures_cached_never(cache_scope) == FALSE

failures_cached(cache_scope) == cache_scope = "Always"
\* a runner that uses the remote cache under every scope
use_remote_cache_any_scope(cache_scope) == TRUE

use_remote_cache(cache_scope) == cache_scope = "Always" \/ cache_scope = "Successful"

\* a runner that speculates whatever cache_read says
SpeculatesIgnoringRead(read, cache_scope) == use_remote_cache(cache_scope)

\* whether run goes through speculate_read_action_cache
Speculates(read, cache_scope) == read /\ use_remote_cache(cache_scope)

\* a runner that writes failed results back under every scope
WritesBackFailures(hit_cache, exit_code, write, cache_scope) ==
  ~hit_cache /\ write /\ use_remote_cache(cache_scope)

\* a runner that writes back the results it took from the cache too
WritesBackHits(hit_cache, exit_code, write, cache_scope) ==
  /\ (exit_code = 0 \/ failures_cached(cache_scope))
  /\ write
  /\ use_remote_cache(cache_scope)

\* whether run spawns the write-back of a result
WritesBack(hit_cache, exit_code, write, cache_scope) ==
  /\ ~hit_cache
  /\ (exit_code = 0 \/ failures_cached(cache_scope))
  /\ write
  /\ use_remote_cache(cache_scope)

\* an update_action_cache that publishes without uploading the closure
WriteStepsWithoutUpload ==
  <<"ensure_action_uploaded", "make_action_result", "update_action_result">>

\* the steps of update_action_cache, in order
WriteSteps ==
  <<"ensure_action_uploaded", "make_action_result", "ensure_remote_has_recursive",
    "update_action_result">>

(***************************************************************************)
(* State.                                                                  *)
(***************************************************************************)
VARIABLES
  cache_read, cache_write, warnings_behavior, cache_content_behavior,
  read_errors_counter, write_errors_counter,
  log,                    \* the bag of log lines emitted by log_cache_error
  log_calls,              \* the number of log_cache_error calls per type and text
  log_threads,            \* per thread, the line it is about to emit
  action_cache,           \* the Action Cache: the ActionResult of each action digest
  remote_store,           \* the digests the remote store has
  rpcs,                   \* the number of calls issued per RPC
  metrics,                \* the workunit counters
  pc,                     \* the position of Run
  request,                \* the Process of the Run
  now,                    \* the time since cache_lookup_start
  cache_read_future,
  local_execution_future,
  speculation,            \* which future completed first, and what it yielded
  inner_return,           \* what the downstream runner returned
  result,                 \* (result, hit_cache) or the error of the Run
  run_return,             \* what Run returned
  write_task,             \* the write-back task on tail_tasks
  earlier_runs            \* the Runs of the runner that have returned

config == <<cache_read, cache_write, warnings_behavior, cache_content_behavior>>
logging == <<read_errors_counter, write_errors_counter, log, log_calls, log_threads>>
remote == <<action_cache, remote_store, rpcs>>
futures == <<now, cache_read_future, local_execution_future, speculation, inner_return>>
vars ==
  <<config, logging, remote, metrics, pc, request, futures, result, run_return,
    write_task, earlier_runs>>

NoRequest ==
  [cache_scope |-> "Never", remote_cache_speculation_delay |-> 0,
   command |-> [output_files |-> <<>>, output_directories |-> <<>>], fingerprint |-> 1]
NoFuture == [state |-> "none", started_at |-> 0, latency |-> 0, stalls |-> FALSE]
NoWriteTask ==
  [state |-> "none", step |-> 1, done |-> <<>>, manifest |-> None,
   closure_present |-> FALSE, outcome |-> None]

Init ==
  /\ cache_read \in BOOLEAN
  /\ cache_write \in BOOLEAN
  /\ warnings_behavior \in RemoteCacheWarningsBehavior
  /\ cache_content_behavior \in CacheContentBehavior
  /\ read_errors_counter = [e \in ErrTexts |-> 0]
  /\ write_errors_counter = [e \in ErrTexts |-> 0]
  /\ log = EmptyBag
  /\ log_calls = [k \in CacheErrorType \X ErrTexts |-> 0]
  /\ log_threads = [t \in LogThreads |-> None]
  /\ action_cache \in [Fingerprints -> Preloaded]
  /\ remote_store = {}
  /\ rpcs = [GetActionResult |-> 0, UpdateActionResult |-> 0]
  /\ metrics = [m \in Metric |-> 0]
  /\ pc = "idle"
  /\ request = NoRequest
  /\ now = 0
  /\ cache_read_future = NoFuture
  /\ local_execution_future = NoFuture
  /\ speculation = [first |-> "none", returned |-> None, yields |-> None]
  /\ inner_return = None
  /\ result = None
  /\ run_return = None
  /\ write_task = NoWriteTask
  /\ earlier_runs = <<>>

Increment(m) == metrics' = [metrics EXCEPT ![m] = @ + 1]

(***************************************************************************)
(* log_cache_error.                                                        *)
(***************************************************************************)
ErrorsCounter(err_type) ==
  IF err_type = "ReadError" THEN read_errors_counter ELSE write_errors_counter

\* the block of log_cache_error that holds the lock of the counter
LockedCount(err, err_type) ==
  /\ read_errors_counter' =
       IF err_type = "ReadError" THEN CountError(read_errors_counter, err)
                                 ELSE read_errors_counter
  /\ write_errors_counter' =
       IF err_type = "WriteError" THEN CountError(write_errors_counter, err)
                                  ELSE write_errors_counter
  /\ log_calls' = [log_calls EXCEPT ![<<err_type, err>>] = @ + 1]

\* log_cache_error as one step of its caller
log_cache_error(err, err_type) ==
  /\ LockedCount(err, err_type)
  /\ log' = log (+) SetToBag({LogLine(warnings_behavior, err_type, err,
                                      ErrorsCounter(err_type)'[err])})
  /\ UNCHANGED log_threads

\* log_cache_error called by the thread t, up to the release of the lock
LogCount(t, err, err_type) ==
  /\ log_threads[t] = None
  /\ BagCardinality(log) + Cardinality({u \in LogThreads : log_threads[u] # None})
       < MaxCalls
  /\ LockedCount(err, err_type)
  /\ log_threads' =
       [log_threads EXCEPT ![t] =
          Some([err |-> err, err_type |-> err_type,
                err_count |-> ErrorsCounter(err_type)'[err]])]
  /\ UNCHANGED <<log, config, earlier_runs, remote, metrics, pc, request, futures, result,
                 run_return, write_task>>

\* the rest of log_cache_error in the thread t: the line is emitted
LogEmit(t) ==
  /\ log_threads[t] # None
  /\ log' = log (+) SetToBag({LogLine(warnings_behavior, log_threads[t].some.err_type,
                                      log_threads[t].some.err,
                                      log_threads[t].some.err_count)})
  /\ log_threads' = [log_threads EXCEPT ![t] = None]
  /\ UNCHANGED <<read_errors_counter, write_errors_counter, log_calls, config, earlier_runs, remote,
                 metrics, pc, request, futures, result, run_return, write_task>>

(***************************************************************************)
(* Run.                                                                    *)
(***************************************************************************)
action_digest == ActionDigest(request.fingerprint)
command_digest == CommandDigest(request.fingerprint)

\* the end of run once (result, hit_cache) or an error is known: the error
\* is returned by `?`, a result may spawn the write-back on tail_tasks.  The
\* two futures are dropped and the time since cache_lookup_start is no
\* longer read
Conclude(r) ==
  /\ result' = r
  /\ pc' = "return"
  /\ now' = 0
  /\ cache_read_future' = NoFuture
  /\ local_execution_future' = NoFuture
  /\ write_task' =
       IF IsOk(r) /\ WritesBack(r.ok.hit_cache, r.ok.result.exit_code, cache_write,
                                request.cache_scope)
         THEN [NoWriteTask EXCEPT !.state = "spawned"]
         ELSE write_task

\* a map that also rewrites the error of the downstream runner
NotHitWrapped(local_result) ==
  IF IsOk(local_result) THEN Ok([result |-> local_result.ok, hit_cache |-> FALSE])
  ELSE Err(<<"remote cache", local_result.err>>)

\* Result::map(|res| (res, false))
NotHit(local_result) ==
  IF IsOk(local_result) THEN Ok([result |-> local_result.ok, hit_cache |-> FALSE])
  ELSE local_result

\* run is called: make_execute_request
Run(req, ok) ==
  /\ pc = "idle"
  /\ request' = req
  /\ now' = 0
  /\ IF ok
       THEN /\ pc' = "ensure_action_stored_locally"
            /\ UNCHANGED result
       ELSE /\ pc' = "return"
            /\ result' = Err(ErrMakeExecuteRequest)
  /\ UNCHANGED <<config, earlier_runs, logging, remote, metrics, cache_read_future,
                 local_execution_future, speculation, inner_return, run_return,
                 write_task>>

\* ensure_action_stored_locally, then the futures of the branch taken are
\* created: none of them has been polled yet.  cache_latency (or stalls) and
\* local_latency are how long each takes once it is polled
EnsureActionStoredLocally(ok, cache_latency, stalls, local_latency) ==
  /\ pc = "ensure_action_stored_locally"
  /\ IF ~ok
       THEN /\ pc' = "return"
            /\ result' = Err(ErrStoreLocally)
            /\ cache_latency = 0 /\ ~stalls /\ local_latency = 0
            /\ UNCHANGED <<cache_read_future, local_execution_future>>
       ELSE /\ UNCHANGED result
            /\ local_execution_future' =
                 [NoFuture EXCEPT !.state = "created", !.latency = local_latency]
            /\ IF Speculates(cache_read, request.cache_scope)
                 THEN /\ pc' = "select_cache_or_sleep"
                      /\ cache_read_future' =
                           [NoFuture EXCEPT !.state = "created",
                                            !.latency = cache_latency,
                                            !.stalls = stalls]
                 ELSE /\ pc' = "inner_run"
                      /\ cache_latency = 0 /\ ~stalls
                      /\ UNCHANGED cache_read_future
  /\ UNCHANGED <<config, earlier_runs, logging, remote, metrics, request, now, speculation,
                 inner_return, run_return, write_task>>

Selecting == pc \in {"select_cache_or_sleep", "select_cache_or_local"}
\* a speculation that polls the downstream future during the sleep too
AwaitingLocalWhileSleeping ==
  pc \in {"select_cache_or_sleep", "select_cache_or_local", "await_local", "inner_run"}

\* the places of run where local_execution_future is polled
AwaitingLocal == pc \in {"select_cache_or_local", "await_local", "inner_run"}

\* the first poll of cache_read_future: check_action_cache starts and issues
\* GetActionResult
PollCacheRead ==
  /\ Selecting
  /\ cache_read_future.state = "created"
  /\ cache_read_future' =
       [cache_read_future EXCEPT !.state = "pending", !.started_at = now]
  /\ Increment("RemoteCacheRequests")
  /\ rpcs' = [rpcs EXCEPT !.GetActionResult = @ + 1]
  /\ UNCHANGED <<config, earlier_runs, logging, action_cache, remote_store, pc, request, now,
                 local_execution_future, speculation, inner_return, result,
                 run_return, write_task>>

\* the first poll of local_execution_future: the downstream runner starts
PollLocal ==
  /\ AwaitingLocal
  /\ local_execution_future.state = "created"
  /\ local_execution_future' =
       [local_execution_future EXCEPT !.state = "pending", !.started_at = now]
  /\ UNCHANGED <<config, earlier_runs, logging, remote, metrics, pc, request, now, cache_read_future,
                 speculation, inner_return, result, run_return, write_task>>

Ready(future) ==
  /\ future.state = "pending"
  /\ ~future.stalls
  /\ now >= future.started_at + future.latency

\* a speculation that races the downstream runner from the start
SleepElapsedAtOnce == TRUE

\* tokio::time::sleep(request.remote_cache_speculation_delay) is over
SleepElapsed == now >= request.remote_cache_speculation_delay

\* what the Action Cache answers to GetActionResult
GetActionResult(fault) ==
  IF fault THEN Err([code |-> "Unavailable", text |-> ErrGetActionResult])
  ELSE IF action_cache[request.fingerprint] = None
    THEN Err([code |-> "NotFound", text |-> ""])
  ELSE Ok(action_cache[request.fingerprint].some)

\* a handle_cache_read_completed that records every completed cache read
RecordsRemoteFirstOnMiss(cache_result) == TRUE

\* whether handle_cache_read_completed increments
\* RemoteCacheSpeculationRemoteCompletedFirst for what the cache read yielded
RecordsRemoteFirst(cache_result) == IsSome(cache_result)

\* cache_read_future completes in a select! that polls it, and
\* handle_cache_read_completed runs
CacheReadCompleted(fault, roots_ok, blobs_present, store_ok) ==
  /\ Selecting
  /\ Ready(cache_read_future)
  /\ LET checked == check_action_cache(GetActionResult(fault), cache_content_behavior,
                                       roots_ok, blobs_present, store_ok)
         out == cache_read_future_output(checked.returns,
                                         failures_cached(request.cache_scope))
     IN /\ IF out.logs = None THEN UNCHANGED logging
                              ELSE log_cache_error(out.logs.some, "ReadError")
        /\ speculation' = [first |-> "cache_read", returned |-> Some(checked.returns),
                           yields |-> out.yields]
        /\ metrics' =
             [metrics EXCEPT
                ![checked.counter] = @ + 1,
                !["RemoteCacheSpeculationRemoteCompletedFirst"] =
                  IF RecordsRemoteFirst(out.yields) THEN @ + 1 ELSE @]
        /\ IF IsSome(out.yields)
             THEN Conclude(Ok([result |-> out.yields.some, hit_cache |-> TRUE]))
             ELSE /\ pc' = "await_local"
                  /\ cache_read_future' = NoFuture
                  /\ UNCHANGED <<now, local_execution_future, result, write_task>>
  /\ UNCHANGED <<config, earlier_runs, remote, request, inner_return, run_return>>

\* the sleep of the first select! completes first: the second select!
Sleep ==
  /\ pc = "select_cache_or_sleep"
  /\ SleepElapsed
  /\ pc' = "select_cache_or_local"
  /\ UNCHANGED <<config, earlier_runs, logging, remote, metrics, request, futures, result,
                 run_return, write_task>>

\* a second select! that takes the downstream result only once the cache
\* read is over
LocalCompletedFirstAfterCacheRead(local_result) ==
  /\ pc = "select_cache_or_local"
  /\ cache_read_future.state # "pending"
  /\ Ready(local_execution_future)
  /\ Increment("RemoteCacheSpeculationLocalCompletedFirst")
  /\ speculation' = [first |-> "local", returned |-> None, yields |-> None]
  /\ inner_return' = Some(local_result)
  /\ Conclude(NotHit(local_result))
  /\ UNCHANGED <<config, earlier_runs, logging, remote, request, run_return>>

\* a second select! whose losing cache read is not cancelled: its lookup
\* still ends and is counted
LocalCompletedFirstThenCacheRead(local_result) ==
  /\ pc = "select_cache_or_local"
  /\ Ready(local_execution_future)
  /\ metrics' =
       [metrics EXCEPT
          !["RemoteCacheSpeculationLocalCompletedFirst"] = @ + 1,
          !["RemoteCacheRequestsUncached"] =
            IF cache_read_future.state = "pending" THEN @ + 1 ELSE @]
  /\ speculation' = [first |-> "local", returned |-> None, yields |-> None]
  /\ inner_return' = Some(local_result)
  /\ Conclude(NotHit(local_result))
  /\ UNCHANGED <<config, earlier_runs, logging, remote, request, run_return>>

\* local_execution_future completes first in the second select!
LocalCompletedFirst(local_result) ==
  /\ pc = "select_cache_or_local"
  /\ Ready(local_execution_future)
  /\ Increment("RemoteCacheSpeculationLocalCompletedFirst")
  /\ speculation' = [first |-> "local", returned |-> None, yields |-> None]
  /\ inner_return' = Some(local_result)
  /\ Conclude(NotHit(local_result))
  /\ UNCHANGED <<config, earlier_runs, logging, remote, request, run_return>>

\* local_execution_future.await of handle_cache_read_completed, and
\* self.inner.run(..).await of run
LocalCompleted(local_result) ==
  /\ pc \in {"await_local", "inner_run"}
  /\ Ready(local_execution_future)
  /\ inner_return' = Some(local_result)
  /\ Conclude(NotHit(local_result))
  /\ UNCHANGED <<config, earlier_runs, logging, remote, metrics, request, speculation, run_return>>

\* time passes while the futures Run polls are pending
Tick ==
  /\ Selecting \/ AwaitingLocal
  /\ Selecting =>
       /\ cache_read_future.state = "pending"
       /\ ~Ready(cache_read_future)
  /\ pc = "select_cache_or_sleep" => ~SleepElapsed
  /\ AwaitingLocal =>
       /\ local_execution_future.state = "pending"
       /\ ~Ready(local_execution_future)
  /\ now' = now + 1
  /\ UNCHANGED <<config, earlier_runs, logging, remote, metrics, pc, request, cache_read_future,
                 local_execution_future, speculation, inner_return, result, run_return,
                 write_task>>

\* a run that awaits the write-back it spawned
CanReturnAfterWrite == pc = "return" /\ write_task.state \in {"none", "finished"}

\* whether run can return: it awaits nothing after the spawn
CanReturn == pc = "return"

\* Ok(result), or the error of a `?`
Return ==
  /\ CanReturn
  /\ pc' = "returned"
  /\ run_return' = IF IsOk(result) THEN Ok(result.ok.result) ELSE result
  /\ UNCHANGED <<config, earlier_runs, logging, remote, metrics, request, futures, result,
                 write_task>>

(***************************************************************************)
(* The write-back task.                                                    *)
(***************************************************************************)
\* the task starts on the executor
WriteStart ==
  /\ write_task.state = "spawned"
  /\ write_task' = [write_task EXCEPT !.state = "running"]
  /\ Increment("RemoteCacheWriteAttempts")
  /\ UNCHANGED <<config, earlier_runs, logging, remote, pc, request, futures, result, run_return>>

AtStep(name) ==
  /\ write_task.state = "running"
  /\ write_task.step <= Len(WriteSteps)
  /\ WriteSteps[write_task.step] = name

\* a step of update_action_cache succeeded
StepDone(name) ==
  [write_task EXCEPT !.step = @ + 1, !.done = Append(@, name)]

\* a write-back that logs its error without counting it
WriteFailedUncounted(err) ==
  /\ write_task' = [write_task EXCEPT !.state = "finished", !.outcome = Some(Err(err))]
  /\ log_cache_error(err, "WriteError")
  /\ UNCHANGED metrics

\* a step of update_action_cache failed: `?` returns the error, which the
\* task logs and counts
WriteFailed(err) ==
  /\ write_task' = [write_task EXCEPT !.state = "finished", !.outcome = Some(Err(err))]
  /\ log_cache_error(err, "WriteError")
  /\ Increment("RemoteCacheWriteErrors")

EnsureActionUploaded(ok) ==
  /\ AtStep("ensure_action_uploaded")
  /\ IF ok
       THEN /\ remote_store' = remote_store \cup {command_digest, action_digest}
            /\ write_task' = StepDone("ensure_action_uploaded")
            /\ UNCHANGED <<logging, metrics>>
       ELSE /\ WriteFailed(ErrEnsureActionUploaded)
            /\ UNCHANGED remote_store
  /\ UNCHANGED <<config, earlier_runs, action_cache, rpcs, pc, request, futures, result, run_return>>

MakeActionResult(load_ok, store_ok) ==
  /\ AtStep("make_action_result")
  /\ LET made == make_action_result(request.command, result.ok.result, load_ok, store_ok)
     IN IF IsOk(made)
          THEN /\ write_task' =
                    [StepDone("make_action_result") EXCEPT !.manifest = Some(made.ok)]
               /\ UNCHANGED <<logging, metrics>>
          ELSE WriteFailed(made.err)
  /\ UNCHANGED <<config, earlier_runs, remote, pc, request, futures, result, run_return>>

\* Store::ensure_remote_has_recursive: on success the remote store has
\* every digest it was given
EnsureRemoteHasRecursive(ok) ==
  /\ AtStep("ensure_remote_has_recursive")
  /\ write_task.manifest # None
  /\ IF ok
       THEN /\ remote_store' = remote_store \cup write_task.manifest.some.digests
            /\ write_task' = StepDone("ensure_remote_has_recursive")
            /\ UNCHANGED <<logging, metrics>>
       ELSE /\ WriteFailed(ErrEnsureRemote)
            /\ UNCHANGED remote_store
  /\ UNCHANGED <<config, earlier_runs, action_cache, rpcs, pc, request, futures, result, run_return>>

\* the UpdateActionResult call, and the end of the task
UpdateActionResult(ok) ==
  /\ AtStep("update_action_result")
  /\ write_task.manifest # None
  /\ rpcs' = [rpcs EXCEPT !.UpdateActionResult = @ + 1]
  /\ IF ok
       THEN /\ action_cache' =
                 [action_cache EXCEPT ![request.fingerprint] =
                    Some(write_task.manifest.some.action_result)]
            /\ write_task' =
                 [StepDone("update_action_result") EXCEPT
                    !.state = "finished",
                    !.outcome = Some(Ok("written")),
                    !.closure_present =
                      write_task.manifest.some.digests \subseteq remote_store]
            /\ Increment("RemoteCacheWriteSuccesses")
            /\ UNCHANGED logging
       ELSE /\ write_task' =
                 [write_task EXCEPT
                    !.state = "finished",
                    !.outcome = Some(Err(ErrUpdateActionResult)),
                    !.closure_present =
                      write_task.manifest.some.digests \subseteq remote_store]
            /\ log_cache_error(ErrUpdateActionResult, "WriteError")
            /\ Increment("RemoteCacheWriteErrors")
            /\ UNCHANGED action_cache
  /\ UNCHANGED <<config, earlier_runs, remote_store, pc, request, futures, result, run_return>>

(***************************************************************************)
(* Specifications.                                                         *)
(***************************************************************************)
RunNext ==
  \/ \E req \in Requests, ok \in BOOLEAN : Run(req, ok)
  \/ \E ok, stalls \in BOOLEAN, cache_latency, local_latency \in 0..MaxLat :
       /\ stalls => cache_latency = 0
       /\ EnsureActionStoredLocally(ok, cache_latency, stalls, local_latency)
  \/ PollCacheRead
  \/ PollLocal
  \/ \E fault, roots_ok, blobs_present, store_ok \in BOOLEAN :
       CacheReadCompleted(fault, roots_ok, blobs_present, store_ok)
  \/ Sleep
  \/ \E local_result \in InnerOutcomes : LocalCompletedFirst(local_result)
  \/ \E local_result \in InnerOutcomes : LocalCompleted(local_result)
  \/ Tick
  \/ Return

WriteNext ==
  \/ WriteStart
  \/ \E ok \in BOOLEAN : EnsureActionUploaded(ok)
  \/ \E load_ok, store_ok \in BOOLEAN : MakeActionResult(load_ok, store_ok)
  \/ \E ok \in BOOLEAN : EnsureRemoteHasRecursive(ok)
  \/ \E ok \in BOOLEAN : UpdateActionResult(ok)

Next == RunNext \/ WriteNext

Spec == Init /\ [][Next]_vars

\* warnings_behavior selects the level of the log lines only: one value
InitFair == Init /\ warnings_behavior = "Backoff"

\* the executor keeps polling the task of run, time passes, and the
\* downstream runner completes once its latency is over
SpecFair == InitFair /\ [][Next]_vars /\ WF_vars(RunNext)

\* the caller runs the next process on the same runner once the Run has
\* returned and its write-back, if any, has finished: the runner keeps its
\* error counters, the workunit its metrics, the server its cache
RunAgain ==
  /\ pc = "returned"
  /\ write_task.state \in {"none", "finished"}
  /\ Len(earlier_runs) + 1 < MaxRuns
  /\ earlier_runs' =
       Append(earlier_runs,
              [fingerprint |-> request.fingerprint,
               cache_scope |-> request.cache_scope, returned |-> run_return,
               hit_cache |-> IsOk(result) /\ result.ok.hit_cache,
               written |-> write_task.outcome])
  /\ pc' = "idle"
  /\ request' = NoRequest
  /\ speculation' = [first |-> "none", returned |-> None, yields |-> None]
  /\ inner_return' = None
  /\ result' = None
  /\ run_return' = None
  /\ write_task' = NoWriteTask
  /\ UNCHANGED <<config, logging, remote, metrics, now, cache_read_future,
                 local_execution_future>>

\* a runner with cache reads and writes enabled in front of an empty Action
\* Cache, used for one Run after the other
InitRuns ==
  /\ Init
  /\ cache_read /\ cache_write
  /\ warnings_behavior = "Backoff" /\ cache_content_behavior = "Defer"
  /\ \A fp \in Fingerprints : action_cache[fp] = None

\* the Runs of SpecRuns: processes of scope Always whose preparation
\* succeeds and whose downstream runner exits with 0, exits with 3 or fails
RunsRequests == {req \in Requests : req.cache_scope = "Always"}
RunsOutcomes ==
  {Ok(ProcessResult(c, TrieOk, "RanLocally")) : c \in ExitCodes} \cup {Err(ErrInner)}

\* the faults of SpecRuns are those of the two RPCs
NextRuns ==
  \/ \E req \in RunsRequests : Run(req, TRUE)
  \/ \E stalls \in BOOLEAN, cache_latency, local_latency \in 0..MaxLat :
       /\ stalls => cache_latency = 0
       /\ EnsureActionStoredLocally(TRUE, cache_latency, stalls, local_latency)
  \/ PollCacheRead
  \/ PollLocal
  \/ \E fault \in BOOLEAN : CacheReadCompleted(fault, TRUE, TRUE, TRUE)
  \/ Sleep
  \/ \E local_result \in RunsOutcomes : LocalCompletedFirst(local_result)
  \/ \E local_result \in RunsOutcomes : LocalCompleted(local_result)
  \/ Tick
  \/ Return
  \/ WriteStart
  \/ EnsureActionUploaded(TRUE)
  \/ MakeActionResult(TRUE, TRUE)
  \/ EnsureRemoteHasRecursive(TRUE)
  \/ \E ok \in BOOLEAN : UpdateActionResult(ok)
  \/ RunAgain

SpecRuns == InitRuns /\ [][NextRuns]_vars

\* a runner that writes without reading: every result of the downstream
\* runner goes to update_action_cache
InitManifest ==
  /\ Init
  /\ ~cache_read /\ cache_write
  /\ warnings_behavior = "Backoff" /\ cache_content_behavior = "Defer"
  /\ \A fp \in Fingerprints : action_cache[fp] = None

\* the Run of a command up to the manifest of its result
ManifestNext ==
  \/ \E req \in ManifestRequests : Run(req, TRUE)
  \/ EnsureActionStoredLocally(TRUE, 0, FALSE, 0)
  \/ PollLocal
  \/ \E local_result \in ManifestOutcomes : LocalCompleted(local_result)
  \/ WriteStart
  \/ EnsureActionUploaded(TRUE)
  \/ \E load_ok, store_ok \in BOOLEAN : MakeActionResult(load_ok, store_ok)

SpecManifest == InitManifest /\ [][ManifestNext]_vars

\* log_cache_error called concurrently by the threads of the executor
LogNext ==
  \/ \E t \in LogThreads, err \in LogTexts, err_type \in CacheErrorType :
       LogCount(t, err, err_type)
  \/ \E t \in LogThreads : LogEmit(t)

\* log_cache_error reads warnings_behavior and the two counters only: the
\* rest of the runner is fixed
InitLog ==
  /\ Init
  /\ cache_read /\ cache_write /\ cache_content_behavior = "Defer"
  /\ \A fp \in Fingerprints : action_cache[fp] = None

SpecLog == InitLog /\ [][LogNext]_vars

(***************************************************************************)
(* Properties.                                                             *)
(***************************************************************************)
Returned == pc = "returned"
\* the downstream runner returned, and Run returned the same value
ReturnedInnerValue == inner_return # None /\ run_return = inner_return.some
\* Run failed before it called the downstream runner
FailedInPreparation ==
  /\ inner_return = None
  /\ run_return \in {Err(ErrMakeExecuteRequest), Err(ErrStoreLocally)}
InnerExitCode ==
  IF inner_return # None /\ IsOk(inner_return.some)
    THEN inner_return.some.ok.exit_code ELSE 0

\* C1 as stated: on a runner with cache_read disabled no GetActionResult is
\* ever issued and the value every Run returns (result or error) is the
\* value the downstream runner returned.
C1_AsStated ==
  ~cache_read =>
    /\ rpcs.GetActionResult = 0
    /\ Returned => ReturnedInnerValue

\* C1, amended: on a runner with cache_read disabled no GetActionResult is
\* ever issued (whatever the cache scope and cache_write), and a Run that
\* reaches the downstream runner returns the value (result or error) the
\* downstream runner returned; a Run whose preparation fails
\* (make_execute_request, ensure_action_stored_locally) returns that error
\* and never calls the downstream runner.
C1_NoReadWhenDisabled ==
  ~cache_read =>
    /\ rpcs.GetActionResult = 0
    /\ metrics["RemoteCacheRequests"] = 0
    /\ speculation.first = "none"
    /\ Returned => ReturnedInnerValue \/ FailedInPreparation
    /\ inner_return # None /\ pc = "return" => result = NotHit(inner_return.some)

C1_Witness ==
  /\ ~cache_read /\ cache_write /\ request.cache_scope = "Always"
  /\ Returned /\ ReturnedInnerValue /\ IsOk(run_return)

\* C2: when the downstream result has a non-zero exit code and the scope
\* is not Always, no write-back task is spawned and no UpdateActionResult
\* is issued, also with cache_write enabled.
C2_FailureNotWritten ==
  (InnerExitCode # 0 /\ request.cache_scope # "Always") =>
    /\ write_task.state = "none"
    /\ rpcs.UpdateActionResult = 0
    /\ metrics["RemoteCacheWriteAttempts"] = 0

C2_Witness ==
  /\ InnerExitCode # 0 /\ request.cache_scope = "Successful" /\ cache_write
  /\ Returned /\ ReturnedInnerValue

\* the order of the steps of a write-back
UploadThenPublish ==
  <<"ensure_action_uploaded", "make_action_result", "ensure_remote_has_recursive",
    "update_action_result">>
Published == rpcs.UpdateActionResult > 0

\* C3: in a write-back the steps succeed in the order ensure_action_uploaded,
\* make_action_result, ensure_remote_has_recursive, UpdateActionResult; when
\* UpdateActionResult is issued the three earlier steps have succeeded and
\* every digest of the manifest's closure is in the remote store; a
\* write-back that failed in an earlier step never issues UpdateActionResult.
C3_UploadBeforePublish ==
  /\ IsPrefix(write_task.done, UploadThenPublish)
  /\ Published =>
       /\ write_task.state = "finished"
       /\ IsPrefix(SubSeq(UploadThenPublish, 1, 3), write_task.done)
       /\ write_task.manifest # None
       /\ write_task.closure_present
       /\ write_task.manifest.some.digests \subseteq remote_store
       /\ {action_digest, command_digest} \subseteq remote_store
  /\ (write_task.state = "finished" /\ Len(write_task.done) < 3) =>
       /\ ~Published
       /\ IsErr(write_task.outcome.some)
       /\ action_cache[request.fingerprint] \in Preloaded

C3_Witness ==
  /\ Published
  /\ write_task.outcome = Some(Ok("written"))
  /\ Cardinality(write_task.manifest.some.digests) > 3

\* C4: a failure of the cache read (a GetActionResult status other than
\* success or NotFound, output roots that cannot be loaded, content that
\* cannot be validated) is logged by log_cache_error as a read error and
\* coerced to a miss; Run then returns what the downstream runner returns.
ReadFailed == speculation.returned # None /\ IsErr(speculation.returned.some)
C4_ReadErrorIsMiss ==
  ReadFailed =>
    LET err == speculation.returned.some.err IN
    /\ err \in {ErrGetActionResult, ErrOutputRoots, ErrOutputContent}
    /\ speculation.yields = None
    /\ read_errors_counter[err] = 1
    /\ \E line \in BagToSet(log) : line.err = err /\ line.direction = "read from"
    /\ metrics["RemoteCacheReadErrors"] = 1
    /\ pc \in {"await_local", "return", "returned"}
    /\ pc = "return" => inner_return # None /\ result = NotHit(inner_return.some)
    /\ Returned => ReturnedInnerValue

C4_Witness ==
  /\ ReadFailed /\ speculation.returned.some.err = ErrOutputContent
  /\ Returned /\ IsOk(run_return)

\* C5: Run returns without waiting for the write-back it spawned: from the
\* spawn on Run can return whatever the state of the task, and what it
\* returns is the downstream result, whether the task has not started, is
\* running, succeeded or failed.
C5_ReturnDoesNotAwaitWrite ==
  write_task.state # "none" =>
    /\ pc \in {"return", "returned"}
    /\ pc = "return" => ENABLED Return
    /\ inner_return # None /\ IsOk(inner_return.some)
    /\ result = NotHit(inner_return.some)
    /\ Returned => run_return = inner_return.some

C5_Witness == Returned /\ write_task.state = "spawned" /\ IsOk(run_return)

\* C6: a result fetched from the cache is returned as a hit only if its
\* exit code is zero or the scope is Always; a fetched result with a
\* non-zero exit code under scope Successful is a miss, and Run returns the
\* downstream result.
Fetched ==
  /\ speculation.returned # None
  /\ IsOk(speculation.returned.some)
  /\ IsSome(speculation.returned.some.ok)
FetchedResult == speculation.returned.some.ok.some
C6_HitOnlyIfCacheable ==
  /\ (result # None /\ IsOk(result) /\ result.ok.hit_cache) =>
       /\ Fetched /\ result.ok.result = FetchedResult
       /\ FetchedResult.exit_code = 0 \/ request.cache_scope = "Always"
       /\ Returned => run_return = Ok(FetchedResult)
  /\ (Fetched /\ FetchedResult.exit_code # 0 /\ request.cache_scope = "Successful") =>
       /\ speculation.yields = None
       /\ pc \in {"await_local", "return", "returned"}
       /\ Returned => ReturnedInnerValue

C6_Witness ==
  /\ Fetched /\ FetchedResult.exit_code # 0 /\ request.cache_scope = "Successful"
  /\ Returned /\ IsOk(run_return)

\* the occurrences a behavior logs at Warn
WarnsOn(behavior) ==
  CASE behavior = "Ignore" -> {}
    [] behavior = "FirstOnly" -> {1}
    [] behavior = "Backoff" -> {1, 2, 4, 8, 16, 32}

\* C7: for every error text and direction, after k calls of
\* log_cache_error, interleaved in any way, the counter of the text is k;
\* every call that has finished emitted one line, the lines carry the
\* occurrence numbers 1..k once each, the line of occurrence n is at Warn
\* exactly when n is 1 (FirstOnly) or a power of two (Backoff), never under
\* Ignore, and at Debug otherwise; so once the k calls have finished the
\* number of Warn lines is 0, 1 or the number of powers of two in 1..k.
C7_CountersAndLevels ==
  \A err_type \in CacheErrorType, err \in ErrTexts :
    LET k == log_calls[<<err_type, err>>]
        direction == IF err_type = "ReadError" THEN "read from" ELSE "write to"
        lines == {l \in BagToSet(log) : l.err = err /\ l.direction = direction}
        pending == {t \in LogThreads :
                      /\ log_threads[t] # None
                      /\ log_threads[t].some.err = err
                      /\ log_threads[t].some.err_type = err_type}
        warned == {l \in lines : l.level = "Warn"}
    IN /\ ErrorsCounter(err_type)[err] = k
       /\ \A l \in lines :
            /\ CopiesIn(l, log) = 1
            /\ l.level \in {"Warn", "Debug"}
            /\ l.level = "Warn" <=> l.occurrences \in WarnsOn(warnings_behavior)
       /\ \A t, u \in pending :
            log_threads[t].some.err_count = log_threads[u].some.err_count => t = u
       /\ Cardinality(lines) + Cardinality(pending) = k
       /\ {l.occurrences : l \in lines}
             \cup {log_threads[t].some.err_count : t \in pending} = 1..k
       /\ pending = {} =>
            /\ Cardinality(warned) = Cardinality(WarnsOn(warnings_behavior) \cap 1..k)
            /\ Cardinality(lines \ warned) = k - Cardinality(warned)

C7_Witness ==
  /\ warnings_behavior = "Backoff"
  /\ log_calls[<<"ReadError", ErrGetActionResult>>] = MaxCalls
  /\ \A t \in LogThreads : log_threads[t] = None
  /\ \A n \in {1, 2, 4, 8} :
       \E l \in BagToSet(log) : l.occurrences = n /\ l.level = "Warn"
  /\ \A n \in {3, 5, 6, 7} :
       \E l \in BagToSet(log) : l.occurrences = n /\ l.level = "Debug"

Delay == request.remote_cache_speculation_delay
\* this step decides the speculation
Decides == speculation.first = "none" /\ speculation'.first # "none"
CompletesAt(future) == future.started_at + future.latency
CompletesBefore(future, t) ==
  future.state = "pending" /\ ~future.stalls /\ CompletesAt(future) < t

\* C8: the speculation is decided by the first of two events, the
\* completion of the cache read and the completion of the downstream
\* runner observed once speculation_delay has elapsed: the downstream is
\* not polled, and so never wins, before the delay has elapsed; the
\* future that decides has just completed and the other one has not
\* completed earlier.
C8_FirstCompletionWins ==
  [][/\ pc = "select_cache_or_sleep" => local_execution_future.state = "created"
     /\ (Decides /\ speculation'.first = "local") =>
          /\ now >= Delay
          /\ local_execution_future.state = "pending"
          /\ local_execution_future.started_at >= Delay
          /\ CompletesAt(local_execution_future) = now
          /\ ~CompletesBefore(cache_read_future, now)
          /\ metrics'["RemoteCacheSpeculationLocalCompletedFirst"] = 1
     /\ (Decides /\ speculation'.first = "cache_read") =>
          /\ cache_read_future.state = "pending"
          /\ CompletesAt(cache_read_future) = now
          /\ ~CompletesBefore(local_execution_future, now)
          /\ local_execution_future.state = "pending" =>
               local_execution_future.started_at >= Delay
          /\ metrics'["RemoteCacheSpeculationLocalCompletedFirst"] = 0
    ]_vars

C8_Witness ==
  /\ speculation.first = "local" /\ Delay > 0
  /\ metrics["RemoteCacheRequests"] = 1
  /\ pc = "return" /\ IsOk(result)

\* the downstream runner supplies the result of the Run: it completed
\* first, or the cache read yielded a miss
DownstreamWins(s) == s.first = "local" \/ (s.first = "cache_read" /\ s.yields = None)

\* C9 as stated: when speculation_delay is larger than both latencies,
\* the downstream wins the speculation if and only if
\* downstream latency < cache-read latency + speculation_delay.
C9_AsStated ==
  [][(/\ Decides
      /\ cache_read_future.state = "pending" /\ ~cache_read_future.stalls
      /\ Delay > cache_read_future.latency
      /\ Delay > local_execution_future.latency) =>
        (DownstreamWins(speculation') <=>
           local_execution_future.latency < cache_read_future.latency + Delay)
    ]_vars

\* C9, amended: when speculation_delay is larger than the latency of the
\* cache read (so also when it is larger than both latencies), the cache
\* read completes first, before the downstream runner is polled, and the
\* downstream never completes first, whatever its latency.
C9_CacheReadFirstWithinDelay ==
  [][(/\ Decides
      /\ cache_read_future.state # "none" /\ ~cache_read_future.stalls
      /\ Delay > cache_read_future.latency) =>
        /\ speculation'.first = "cache_read"
        /\ pc = "select_cache_or_sleep"
        /\ local_execution_future.state = "created"
        /\ now = cache_read_future.latency
        /\ metrics'["RemoteCacheSpeculationLocalCompletedFirst"] = 0
    ]_vars

C9_Witness ==
  /\ speculation.first = "cache_read" /\ speculation.yields # None
  /\ Delay = MaxDelay
  /\ pc = "return"

\* a declared output path is an entry of the wrong kind in the trie
DeclaredWrongKind(command, trie) ==
  \/ \E i \in 1..Len(command.output_files) : \E e \in trie :
       e.path = command.output_files[i] /\ e.kind \in {"Symlink", "Directory"}
  \/ \E i \in 1..Len(command.output_directories) : \E e \in trie :
       e.path = command.output_directories[i] /\ e.kind \in {"Symlink", "File"}
WrongKindErrors == {ErrDirSymlink, ErrDirFile, ErrFileSymlink, ErrFileDirectory}
WritesWrongKind ==
  /\ write_task.state # "none"
  /\ DeclaredWrongKind(request.command, result.ok.result.output_directory)
ManifestAttempted ==
  write_task.state = "finished" /\ write_task.done = <<"ensure_action_uploaded">>

Decided == result # None /\ IsOk(result)
HitCache == Decided /\ result.ok.hit_cache

\* C11: a successful Run returns one result: the result the cache read
\* yielded (hit_cache, source HitRemotely, the downstream value never
\* taken) or the result the downstream runner returned (not hit_cache);
\* after a cache hit no write-back is spawned and no UpdateActionResult is
\* issued.
C11_OneSourceAndNoWriteOfHits ==
  /\ Decided =>
       IF result.ok.hit_cache
         THEN /\ speculation.first = "cache_read"
              /\ speculation.yields = Some(result.ok.result)
              /\ result.ok.result.source = "HitRemotely"
              /\ inner_return = None
              /\ write_task = NoWriteTask
              /\ rpcs.UpdateActionResult = 0
         ELSE /\ inner_return = Some(Ok(result.ok.result))
              /\ result.ok.result.source = "RanLocally"
  /\ (Returned /\ IsOk(run_return)) => (Decided /\ run_return = Ok(result.ok.result))

\* a failed result taken from the cache is returned by a runner that writes
C11_Witness ==
  /\ Returned /\ HitCache
  /\ cache_write /\ request.cache_scope = "Always"
  /\ run_return.ok.exit_code = 3
  /\ run_return.ok.source = "HitRemotely"

\* the preparation of the Run succeeded: the downstream future exists
Prepared == pc \in {"select_cache_or_sleep", "inner_run"}

\* C12: under fair scheduling a Run whose preparation succeeded returns:
\* it returns the value of the downstream runner or an accepted cache hit,
\* whether the cache read fails, finds nothing or never completes.
C12_RunReturns ==
  Prepared ~> (Returned /\ (ReturnedInnerValue \/ HitCache))

\* a Run has returned the downstream value while its cache read, started,
\* never completed
C12_Witness ==
  /\ Returned /\ ReturnedInnerValue
  /\ speculation.first = "local"
  /\ rpcs.GetActionResult = 1
  /\ metrics["RemoteCacheRequestsCached"] + metrics["RemoteCacheRequestsUncached"]
       + metrics["RemoteCacheReadErrors"] = 0

\* a Run was called with a scope that is neither Always nor Successful
OutOfScope == pc # "idle" /\ request.cache_scope \notin {"Always", "Successful"}

\* C13 as stated: a Run whose scope is neither Always nor Successful issues
\* no GetActionResult and no UpdateActionResult whatever cache_read and
\* cache_write are, and returns the value of the downstream runner.
C13_AsStated ==
  OutOfScope =>
    /\ rpcs.GetActionResult = 0 /\ rpcs.UpdateActionResult = 0
    /\ Returned => ReturnedInnerValue

\* C13, amended: a Run whose scope is neither Always nor Successful issues
\* no GetActionResult and no UpdateActionResult whatever cache_read and
\* cache_write are, spawns no write-back, and returns the value (result or
\* error) of the downstream runner when its preparation succeeded; when
\* its preparation fails it returns that error and the downstream runner is
\* not called.
C13_NoCacheOutsideScope ==
  OutOfScope =>
    /\ rpcs.GetActionResult = 0 /\ rpcs.UpdateActionResult = 0
    /\ write_task = NoWriteTask
    /\ metrics["RemoteCacheRequests"] = 0
    /\ Returned => (ReturnedInnerValue \/ FailedInPreparation)

\* a runner that reads and writes returned a successful downstream result
\* of scope Never
C13_Witness ==
  /\ Returned /\ OutOfScope /\ ReturnedInnerValue
  /\ cache_read /\ cache_write
  /\ IsOk(run_return) /\ run_return.ok.exit_code = 0

Previous == earlier_runs[Len(earlier_runs)]
\* the downstream runner of this Run of scope Always exited with a failure
FailedUnderAlways ==
  /\ Decided /\ ~result.ok.hit_cache
  /\ result.ok.result.exit_code # 0
  /\ request.cache_scope = "Always"
\* the Run before this one, of scope Always, returned a downstream failure
\* and its write-back succeeded; this Run has the same fingerprint and scope
StoredFailure ==
  /\ earlier_runs # <<>>
  /\ pc # "idle"
  /\ Previous.cache_scope = "Always" /\ request.cache_scope = "Always"
  /\ Previous.fingerprint = request.fingerprint
  /\ ~Previous.hit_cache
  /\ IsOk(Previous.returned) /\ Previous.returned.ok.exit_code # 0
  /\ Previous.written = Some(Ok("written"))
\* the cache read of this Run completed first and check_action_cache
\* returned Ok
ReadSucceededFirst ==
  /\ speculation.first = "cache_read"
  /\ IsOk(speculation.returned.some)

NotFound == Err([code |-> "NotFound", text |-> ""])
\* the Action Cache has a result for the action of the Run, and the runner
\* checks the content of what it fetches
ValidatesStoredResult ==
  /\ cache_content_behavior \in {"Fetch", "Validate"}
  /\ action_cache[request.fingerprint] # None
\* the lookup of the Run came back as nothing found
LookupFoundNothing ==
  /\ pc = "await_local"
  /\ speculation.returned = Some(Ok(None))
ReadErrorsLogged == {k \in DOMAIN log_calls : k[1] = "ReadError" /\ log_calls[k] > 0}

\* C15: when GetActionResult succeeds, the output roots load and the
\* content check (Fetch or Validate) finds a referenced blob missing, the
\* lookup ends as it does for NotFound: check_action_cache returns Ok(None)
\* and increments RemoteCacheRequestsUncached only, the cache read yields a
\* miss, and no read error is counted or logged.
C15_InvalidContentIsMiss ==
  [][(ValidatesStoredResult /\ CacheReadCompleted(FALSE, TRUE, FALSE, TRUE)) =>
       /\ check_action_cache(GetActionResult(FALSE), cache_content_behavior,
                             TRUE, FALSE, TRUE)
            = check_action_cache(NotFound, cache_content_behavior, TRUE, FALSE, TRUE)
       /\ metrics' = [metrics EXCEPT !["RemoteCacheRequestsUncached"] = @ + 1]
       /\ UNCHANGED logging
       /\ speculation'.returned = Some(Ok(None))
       /\ speculation'.yields = None
       /\ pc' = "await_local"]_vars

\* a stored result was looked up with content validation and the lookup
\* ended as nothing found
C15_Witness ==
  /\ ValidatesStoredResult /\ LookupFoundNothing
  /\ metrics["RemoteCacheRequestsUncached"] = 1
  /\ metrics["RemoteCacheRequestsCached"] = 0
  /\ metrics["RemoteCacheReadErrors"] = 0
  /\ ReadErrorsLogged = {}

\* the step in which the cache read completes in a select! of the Run
CacheReadCompletes == speculation.first = "none" /\ speculation'.first = "cache_read"
RemoteFirst == metrics["RemoteCacheSpeculationRemoteCompletedFirst"]
LocalFirst == metrics["RemoteCacheSpeculationLocalCompletedFirst"]

\* C16 as stated: whenever the cache read completes before the downstream
\* result is taken, with a result or with a miss,
\* RemoteCacheSpeculationRemoteCompletedFirst is incremented.
C16_AsStated ==
  [][CacheReadCompletes => RemoteFirst' = RemoteFirst + 1]_vars

\* C16, amended: when the cache read completes before the downstream
\* result is taken, RemoteCacheSpeculationRemoteCompletedFirst is
\* incremented if it yields a result (Some) and is left alone if it yields a
\* miss (None); RemoteCacheSpeculationLocalCompletedFirst is left alone in
\* both cases.
C16_RemoteFirstOnlyForHits ==
  [][CacheReadCompletes =>
       /\ RemoteFirst' = RemoteFirst + (IF IsSome(speculation'.yields) THEN 1 ELSE 0)
       /\ LocalFirst' = LocalFirst]_vars

\* a Run returned after its cache read completed first with a miss: no
\* speculation counter was incremented
C16_Witness ==
  /\ Returned
  /\ speculation.first = "cache_read" /\ speculation.yields = None
  /\ RemoteFirst = 0 /\ LocalFirst = 0

\* the Run is in speculate_read_action_cache
Speculating == pc \in {"select_cache_or_sleep", "select_cache_or_local", "await_local"}
DownstreamStarted == local_execution_future.state = "pending"

\* C17 as stated: the downstream runner makes progress from the moment
\* speculation starts: whenever time passes in a select! of the speculation
\* the downstream runner is running.
C17_AsStated ==
  [][(Selecting /\ now' > now) => DownstreamStarted]_vars

\* C17, amended: the downstream future is created when speculation starts
\* but is not polled while the first select! sleeps: the downstream runner
\* starts when speculation_delay has elapsed or when the cache read has
\* completed with a miss, whichever comes first.
C17_DelayPostponesDownstream ==
  /\ pc = "select_cache_or_sleep" => local_execution_future.state = "created"
  /\ (Speculating /\ DownstreamStarted) =>
       \/ local_execution_future.started_at >= Delay
       \/ speculation.first = "cache_read"

\* the downstream runner has just started, MaxDelay after the speculation
\* did, while the cache read is still pending
C17_Witness ==
  /\ pc = "select_cache_or_local"
  /\ Delay = MaxDelay
  /\ DownstreamStarted /\ local_execution_future.started_at = MaxDelay
  /\ cache_read_future.state = "pending"

\* the downstream runner completed first in the second select!
LocalWon == speculation.first = "local"
LookupsEnded ==
  metrics["RemoteCacheRequestsCached"] + metrics["RemoteCacheRequestsUncached"]
    + metrics["RemoteCacheReadErrors"]

\* C18: once the downstream runner has completed first after the delay,
\* RemoteCacheSpeculationLocalCompletedFirst is 1 and
\* RemoteCacheSpeculationRemoteCompletedFirst 0, the Run has (and returns)
\* the downstream value with hit_cache false, and the cache read is dropped:
\* from then on its lookup increments no hit, miss or error counter and
\* logs no read error.
C18_LoserCacheReadIsDropped ==
  LocalWon =>
    /\ LocalFirst = 1 /\ RemoteFirst = 0
    /\ inner_return # None
    /\ result = NotHit(inner_return.some)
    /\ Returned => run_return = inner_return.some
    /\ cache_read_future = NoFuture
    /\ LookupsEnded = 0
    /\ ReadErrorsLogged = {}
    /\ metrics["RemoteCacheRequests"] = rpcs.GetActionResult
    /\ rpcs.GetActionResult <= 1

\* the downstream runner won against a cache read in flight, and the
\* write-back of its result has finished since
C18_Witness ==
  /\ LocalWon /\ Returned
  /\ rpcs.GetActionResult = 1
  /\ write_task.state = "finished"
  /\ LocalFirst = 1 /\ LookupsEnded = 0

WriteAttempts == metrics["RemoteCacheWriteAttempts"]
WriteSuccesses == metrics["RemoteCacheWriteSuccesses"]
WriteErrors == metrics["RemoteCacheWriteErrors"]
WriteStarted == write_task.state \in {"running", "finished"}
WriteFinished == write_task.state = "finished"
\* the calls of log_cache_error for write errors, by text
WriteErrorCalls == [e \in ErrTexts |-> log_calls[<<"WriteError", e>>]]

\* C19: the write-back increments RemoteCacheWriteAttempts once when it
\* starts, and when it finishes exactly one of RemoteCacheWriteSuccesses
\* (every step succeeded) and RemoteCacheWriteErrors (a step failed, and
\* its error was logged once as a write error); WriteSuccesses +
\* WriteErrors never exceeds WriteAttempts and equals it once the
\* write-back has finished.
C19_WriteCounters ==
  /\ WriteAttempts = (IF WriteStarted THEN 1 ELSE 0)
  /\ WriteSuccesses + WriteErrors = (IF WriteFinished THEN 1 ELSE 0)
  /\ WriteSuccesses + WriteErrors <= WriteAttempts
  /\ WriteFinished =>
       IF IsOk(write_task.outcome.some)
         THEN /\ WriteSuccesses = 1
              /\ write_task.done = WriteSteps
              /\ WriteErrorCalls = [e \in ErrTexts |-> 0]
         ELSE /\ WriteErrors = 1
              /\ write_task.done # WriteSteps
              /\ WriteErrorCalls =
                   [e \in ErrTexts |-> IF e = write_task.outcome.some.err THEN 1 ELSE 0]
  /\ ~WriteFinished => WriteErrorCalls = [e \in ErrTexts |-> 0]

\* a write-back finished with the failure of its upload step
C19_Witness ==
  /\ WriteFinished
  /\ write_task.outcome = Some(Err(ErrEnsureRemote))
  /\ WriteAttempts = 1 /\ WriteErrors = 1 /\ WriteSuccesses = 0

\* the downstream runner returned an error
DownstreamFailed == inner_return # None /\ IsErr(inner_return.some)

\* C20: when the downstream runner returns an error (cache reads disabled,
\* cache miss, cache read error or downstream first in the race), that
\* error is the outcome of the Run and what Run returns, unchanged; no
\* write-back is spawned, no UpdateActionResult is issued, and the
\* downstream future is gone: it is not run again.
C20_DownstreamErrorPropagates ==
  DownstreamFailed =>
    /\ result = inner_return.some
    /\ pc \in {"return", "returned"}
    /\ Returned => run_return = inner_return.some
    /\ write_task = NoWriteTask
    /\ rpcs.UpdateActionResult = 0 /\ WriteAttempts = 0
    /\ local_execution_future = NoFuture

\* a writing runner returned the error of the downstream runner after a
\* failed cache read
C20_Witness ==
  /\ Returned /\ DownstreamFailed
  /\ run_return = Err(ErrInner)
  /\ cache_write
  /\ speculation.first = "cache_read"
  /\ metrics["RemoteCacheReadErrors"] = 1

\* make_action_result returned Ok for the result of the Run
ManifestMade == write_task.manifest # None
Manifest == write_task.manifest.some.action_result
OutputTrie == result.ok.result.output_directory
EntryAt(path) == CHOOSE e \in OutputTrie : e.path = path
\* the declared paths that are in the output trie, in the declared order
DeclaredPresent(paths) ==
  LET InTrie(path) == \E e \in OutputTrie : e.path = path IN
  SelectSeq(paths, InTrie)
PresentDirectories == DeclaredPresent(request.command.output_directories)
PresentFiles == DeclaredPresent(request.command.output_files)

\* C21: the manifest lists, in the declared order, one output directory
\* per declared directory path that is a Directory of the output trie and
\* one output file (path, digest, executable bit) per declared file path
\* that is a File of it, and nothing for a declared path that is absent;
\* its exit code, stdout digest and stderr digest are those of the
\* result; and it is only refused with a kind error when a declared path
\* is an entry of the wrong kind.
C21_ManifestListsDeclaredOutputs ==
  /\ ManifestMade =>
       /\ Len(Manifest.output_directories) = Len(PresentDirectories)
       /\ \A i \in 1..Len(PresentDirectories) :
            /\ Manifest.output_directories[i].path = PresentDirectories[i]
            /\ Manifest.output_directories[i].tree_digest.kind = "tree"
            /\ EntryAt(PresentDirectories[i]).kind = "Directory"
       /\ Len(Manifest.output_files) = Len(PresentFiles)
       /\ \A i \in 1..Len(PresentFiles) :
            /\ EntryAt(PresentFiles[i]).kind = "File"
            /\ Manifest.output_files[i] =
                 [path |-> PresentFiles[i],
                  digest |-> EntryAt(PresentFiles[i]).digest,
                  is_executable |-> EntryAt(PresentFiles[i]).exec]
       /\ Manifest.exit_code = result.ok.result.exit_code
       /\ Manifest.stdout_digest = result.ok.result.stdout_digest
       /\ Manifest.stderr_digest = result.ok.result.stderr_digest
  /\ (/\ write_task.outcome # None
      /\ IsErr(write_task.outcome.some)
      /\ write_task.outcome.some.err \in WrongKindErrors) =>
       DeclaredWrongKind(request.command, OutputTrie)

\* a manifest was made for a command that declares dir2 before dir and out
\* before out2, with out absent from the trie
C21_Witness ==
  /\ ManifestMade
  /\ request.command.output_directories = <<Dir2, Dir>>
  /\ request.command.output_files = <<Out, Out2>>
  /\ \A e \in OutputTrie : e.path # Out
  /\ Len(Manifest.output_directories) = 2
  /\ <<Manifest.output_directories[1].path, Manifest.output_directories[2].path>>
       = <<Dir2, Dir>>
  /\ Len(Manifest.output_files) = 1 /\ Manifest.output_files[1].path = Out2

Closure == write_task.manifest.some.digests
EmittedDirectories ==
  {Manifest.output_directories[i] : i \in 1..Len(Manifest.output_directories)}
EmittedFiles == {Manifest.output_files[i] : i \in 1..Len(Manifest.output_files)}
\* the entries of the output trie below an emitted output directory
Below(kind) ==
  {e \in OutputTrie :
     /\ e.kind = kind
     /\ \E d \in EmittedDirectories :
          Len(d.path) < Len(e.path) /\ SubSeq(e.path, 1, Len(d.path)) = d.path}
ExpectedClosure ==
  {result.ok.result.stdout_digest, result.ok.result.stderr_digest}
    \cup {d.tree_digest : d \in EmittedDirectories}
    \cup {e.digest : e \in Below("File")}
    \cup {f.digest : f \in EmittedFiles}

\* C22: the digest closure make_action_result returns is the set made of
\* the stdout digest, the stderr digest, the tree digest of every emitted
\* output directory, the digest of every File below an emitted output
\* directory at any depth, and the digest of every emitted output file,
\* each once however many outputs share it; a symlink below an emitted
\* directory adds no digest and does not fail the manifest.
C22_ClosureOfManifest ==
  ManifestMade =>
    /\ Closure = ExpectedClosure
    /\ NoDigest \notin Closure
    /\ \A e \in Below("Symlink") : e.digest \notin Closure

\* a manifest was made of two files of one digest, of a directory with a
\* symlink and a nested file, and of a second directory with a file of the
\* first: nine digests are named, seven are in the closure
C22_Witness ==
  /\ ManifestMade
  /\ request.command.output_directories = <<Dir, Dir2>>
  /\ request.command.output_files = <<Out, Out2>>
  /\ Len(Manifest.output_directories) = 2 /\ Len(Manifest.output_files) = 2
  /\ Manifest.output_files[1].digest = Manifest.output_files[2].digest
  /\ Below("Symlink") # {}
  /\ Cardinality(Below("File")) = 3
  /\ Blob(4) \in Closure
  /\ Cardinality(Closure) = 7

\* the lookup of the Run ran to completion, and what it returned
LookupCompleted == speculation.first = "cache_read"
LookupReturned == speculation.returned.some
\* the lookup returned a result that the cache read turns into a miss
\* because of its exit code
Downgraded ==
  /\ LookupCompleted
  /\ IsOk(LookupReturned) /\ LookupReturned.ok # None
  /\ LookupReturned.ok.some.exit_code # 0
  /\ ~failures_cached(request.cache_scope)

\* C23: the lookup of a Run increments RemoteCacheRequests once when it
\* starts, with its GetActionResult, and once it has run to completion
\* exactly one of RemoteCacheRequestsCached (it returned a result),
\* RemoteCacheRequestsUncached (it returned nothing: NotFound or invalid
\* content) and RemoteCacheReadErrors (it returned an error); Cached +
\* Uncached + ReadErrors never exceeds RemoteCacheRequests; and a fetched
\* result that the cache read downgrades to a miss for its exit code is
\* counted as Cached.
C23_LookupCounters ==
  /\ metrics["RemoteCacheRequests"] = rpcs.GetActionResult
  /\ metrics["RemoteCacheRequests"] <= 1
  /\ LookupsEnded <= metrics["RemoteCacheRequests"]
  /\ LookupsEnded = (IF LookupCompleted THEN 1 ELSE 0)
  /\ LookupCompleted =>
       /\ metrics["RemoteCacheRequestsCached"] =
            (IF IsOk(LookupReturned) /\ LookupReturned.ok # None THEN 1 ELSE 0)
       /\ metrics["RemoteCacheRequestsUncached"] =
            (IF LookupReturned = Ok(None) THEN 1 ELSE 0)
       /\ metrics["RemoteCacheReadErrors"] = (IF IsErr(LookupReturned) THEN 1 ELSE 0)
  /\ Downgraded =>
       /\ speculation.yields = None
       /\ metrics["RemoteCacheRequestsCached"] = 1
       /\ RemoteFirst = 0
       /\ Decided => ~result.ok.hit_cache

\* a Run of scope Successful fetched a failed result, counted it as cached
\* and returned the result of the downstream runner
C23_Witness ==
  /\ Downgraded /\ Returned /\ ReturnedInnerValue
  /\ request.cache_scope = "Successful"
  /\ metrics["RemoteCacheRequests"] = 1
  /\ metrics["RemoteCacheRequestsCached"] = 1
  /\ metrics["RemoteCacheRequestsUncached"] = 0
====
